---- MODULE Spec2Model ----
(***************************************************************************)
(* A model of the CI helper scripts of src/ci:                             *)
(*   check_mr_logs.py      commit-message template checker                 *)
(*   code_format_helper.py ruff / clang-format dispatcher                  *)
(*   typing_helper.py      mypy dispatcher                                 *)
(* Python str values are sequences of one-character strings, so that       *)
(* split, strip, startswith and the regular expressions are computed the   *)
(* way the code computes them.                                             *)
(***************************************************************************)
EXTENDS Integers, Sequences, FiniteSets, TLC

(***************************************************************************)
(* Character classes                                                       *)
(***************************************************************************)
Digits == {"0", "1", "2", "3", "4", "5", "6", "7", "8", "9"}

Upper == {"A", "B", "C", "D", "E", "F", "G", "H", "I", "J", "K", "L", "M",
          "N", "O", "P", "Q", "R", "S", "T", "U", "V", "W", "X", "Y", "Z"}

Lower == {"a", "b", "c", "d", "e", "f", "g", "h", "i", "j", "k", "l", "m",
          "n", "o", "p", "q", "r", "s", "t", "u", "v", "w", "x", "y", "z"}

\* The alphabet of the model is ASCII, Latin-1 and the few other characters
\* named below; classes are given by their members in it.
\* the Latin-1 letters and numerals outside ASCII
Latin1Word ==
  {"ª", "²", "³", "µ", "¹", "º", "¼", "½", "¾", "À", "Á", "Â", "Ã", "Ä",
   "Å", "Æ", "Ç", "È", "É", "Ê", "Ë", "Ì", "Í", "Î", "Ï", "Ð", "Ñ", "Ò",
   "Ó", "Ô", "Õ", "Ö", "Ø", "Ù", "Ú", "Û", "Ü", "Ý", "Þ", "ß", "à", "á",
   "â", "ã", "ä", "å", "æ", "ç", "è", "é", "ê", "ë", "ì", "í", "î", "ï",
   "ð", "ñ", "ò", "ó", "ô", "õ", "ö", "ø", "ù", "ú", "û", "ü", "ý", "þ",
   "ÿ"}

\* letters beyond Latin-1: Greek capital and small alpha
GreekWord == {"Α", "α"}

\* \w of the header pattern: a str pattern compiled without re.ASCII, so it
\* matches every Unicode letter and numeral and the underscore
WordChars == Upper \cup Lower \cup Digits \cup {"_"} \cup Latin1Word \cup GreekWord

\* [A-Z0-9] of the JIRA pattern
UpperAlnum == Upper \cup Digits

\* what str.strip() and str.split() treat as white space (str.isspace): the
\* ASCII controls U+0009..U+000D and U+001C..U+001F, the space, NEL (U+0085),
\* the no-break space (U+00A0) and the ogham space mark (U+1680)
Whitespace ==
  {" ", "\t", "\n", "\r", "\f", "", "", "", "", "",
   "", " ", " "}

(***************************************************************************)
(* Python str operations                                                   *)
(***************************************************************************)
\* s[i:] (1-based, i may be Len(s)+1)
Drop(s, i) == SubSeq(s, i, Len(s))

\* str.startswith(p)
StartsWith(s, p) == Len(s) >= Len(p) /\ SubSeq(s, 1, Len(p)) = p

RECURSIVE FindChar(_, _, _)
\* index of the first c in s at or after i, 0 when there is none
FindChar(s, c, i) ==
  IF i > Len(s) THEN 0
  ELSE IF s[i] = c THEN i
  ELSE FindChar(s, c, i + 1)

RECURSIVE Split(_, _)
\* str.split(sep) for a one-character sep: never empty, keeps empty fields
Split(s, sep) ==
  LET k == FindChar(s, sep, 1)
  IN IF k = 0 THEN <<s>>
     ELSE <<SubSeq(s, 1, k - 1)>> \o Split(Drop(s, k + 1), sep)

RECURSIVE LStrip(_)
LStrip(s) ==
  IF s # <<>> /\ s[1] \in Whitespace THEN LStrip(Tail(s)) ELSE s

RECURSIVE RStrip(_)
RStrip(s) ==
  IF s # <<>> /\ s[Len(s)] \in Whitespace
  THEN RStrip(SubSeq(s, 1, Len(s) - 1)) ELSE s

\* str.strip()
Strip(s) == RStrip(LStrip(s))

RECURSIVE RunLen(_, _, _)
\* length of the longest run of characters of class cls starting at s[i]
RunLen(s, cls, i) ==
  IF i <= Len(s) /\ s[i] \in cls THEN 1 + RunLen(s, cls, i + 1) ELSE 0

RECURSIVE FieldLen(_, _)
\* length of the run of non-white-space characters starting at s[i]
FieldLen(s, i) ==
  IF i <= Len(s) /\ s[i] \notin Whitespace THEN 1 + FieldLen(s, i + 1) ELSE 0

RECURSIVE SplitWS(_)
\* str.split() without argument: the fields between runs of white space
SplitWS(s) ==
  LET t == LStrip(s)
      n == FieldLen(t, 1)
  IN IF t = <<>> THEN <<>>
     ELSE <<SubSeq(t, 1, n)>> \o SplitWS(Drop(t, n + 1))

RECURSIVE Join(_, _)
\* sep.join(parts)
Join(parts, sep) ==
  IF parts = <<>> THEN <<>>
  ELSE IF Len(parts) = 1 THEN parts[1]
  ELSE parts[1] \o sep \o Join(Tail(parts), sep)

(***************************************************************************)
(* check_mr_logs.py: the six checks                                        *)
(***************************************************************************)
\* the line separator, as a character and as a one-character str
NL == "\n"

ProblemPrefix == <<"P", "r", "o", "b", "l", "e", "m", ":">>
TaskPrefix == <<"T", "a", "s", "k", ":">>
SolutionPrefix == <<"S", "o", "l", "u", "t", "i", "o", "n", ":">>
TestPrefix == <<"T", "e", "s", "t", ":">>
JiraPrefix == <<"J", "I", "R", "A", ":">>
AuthorPrefix == <<"A", "u", "t", "h", "o", "r", ":">>
EmailDomain == <<"@", "i", "s", ".", "i", "c">>

\* a fixed failure text, and the f-string of check_author_email with its fields
Msg(text) == [text |-> text, args |-> <<>>]
EmptyMessageMsg == Msg("Empty commit message")
InvalidHeaderMsg ==
  Msg("Invalid header format. Should be: <type>[<SCOPE>]: <short-summary>")
MissingProblemMsg == Msg("Missing 'Problem/Task:' section")
MissingSolutionMsg == Msg("Missing 'Solution:' section")
MissingTestMsg == Msg("Missing 'Test:' section")
MissingJiraMsg == Msg("Missing 'JIRA:' section")
BadJiraMsg == Msg("JIRA reference should be in format: <PROJ-123>")
MissingAuthorMsg == Msg("Missing author or email")
BadEmailMsg(author, email) ==
  [text |-> "{author} {email}: email does not format: <username>@is.ic",
   args |-> <<author, email>>]

\* what a check function does: return (flag, message), or raise
Returned(ok, msg) == [raised |-> FALSE, ok |-> ok, msg |-> msg]
Passed == Returned(TRUE, Msg(""))
Raised == [raised |-> TRUE, ok |-> FALSE, msg |-> Msg("IndexError")]

\* re.match(r"^(\w+)\[(\w+)\]: (.+)$", header): neither group can hold '[' or ']',
\* so each is the longest run of word characters
HeaderMatch(header) ==
  LET a == RunLen(header, WordChars, 1)
      b == RunLen(header, WordChars, a + 2)
  IN /\ a >= 1
     /\ Len(header) >= a + 1 /\ header[a + 1] = "["
     /\ b >= 1
     /\ Len(header) >= a + b + 5
     /\ header[a + b + 2] = "]"
     /\ header[a + b + 3] = ":"
     /\ header[a + b + 4] = " "

check_header(commit_msg) ==
  LET header_lines == SelectSeq(Split(commit_msg, NL), LAMBDA line : line # <<>>)
  IN IF header_lines = <<>> THEN Returned(FALSE, EmptyMessageMsg)
     ELSE IF ~HeaderMatch(header_lines[1]) THEN Returned(FALSE, InvalidHeaderMsg)
     ELSE Passed

\* the "for line in ...: if line.startswith(p): section_started = True" scan
SectionStarted(commit_msg, prefixes) ==
  LET lines == Split(commit_msg, NL)
  IN \E i \in 1..Len(lines) : \E p \in prefixes : StartsWith(lines[i], p)

check_problem_task_section(commit_msg) ==
  IF ~SectionStarted(commit_msg, {ProblemPrefix, TaskPrefix})
  THEN Returned(FALSE, MissingProblemMsg) ELSE Passed

check_solution_section(commit_msg) ==
  IF ~SectionStarted(commit_msg, {SolutionPrefix})
  THEN Returned(FALSE, MissingSolutionMsg) ELSE Passed

check_test_section(commit_msg) ==
  IF ~SectionStarted(commit_msg, {TestPrefix})
  THEN Returned(FALSE, MissingTestMsg) ELSE Passed

\* re.match(r"^[A-Z0-9]+-[0-9]+", jira): a prefix match, no '$'
JiraMatch(jira) ==
  LET a == RunLen(jira, UpperAlnum, 1)
  IN /\ a >= 1
     /\ Len(jira) >= a + 1 /\ jira[a + 1] = "-"
     /\ RunLen(jira, Digits, a + 2) >= 1

RECURSIVE FirstWithPrefix(_, _, _)
\* index of the first line at or after i that starts with p, 0 when none does
FirstWithPrefix(lines, p, i) ==
  IF i > Len(lines) THEN 0
  ELSE IF StartsWith(lines[i], p) THEN i
  ELSE FirstWithPrefix(lines, p, i + 1)

check_jira_section(commit_msg) ==
  LET lines == Split(commit_msg, NL)
      k == FirstWithPrefix(lines, JiraPrefix, 1)
      jira == Strip(Split(lines[k], ":")[2])
  IN IF k = 0 THEN Returned(FALSE, MissingJiraMsg)
     ELSE IF ~JiraMatch(jira) THEN Returned(FALSE, BadJiraMsg)
     ELSE Passed

RECURSIVE AuthorScan(_, _, _)
\* the loop of check_author_email from line i on; st is (section_started,
\* author, email) so far.  line.split()[1] or [2] raises IndexError when the
\* line has fewer than three fields.
AuthorScan(lines, i, st) ==
  IF i > Len(lines) THEN st
  ELSE IF StartsWith(lines[i], AuthorPrefix)
       THEN LET fields == SplitWS(lines[i])
            IN IF Len(fields) < 3 THEN [st EXCEPT !.raised = TRUE]
               ELSE AuthorScan(lines, i + 1,
                               [raised |-> FALSE, section_started |-> TRUE,
                                author |-> Strip(fields[2]),
                                email |-> Strip(fields[3])])
       ELSE AuthorScan(lines, i + 1, st)

check_author_email(commit_msg) ==
  LET st == AuthorScan(Split(commit_msg, NL), 1,
                       [raised |-> FALSE, section_started |-> FALSE,
                        author |-> <<>>, email |-> <<>>])
  IN IF st.raised THEN Raised
     ELSE IF ~st.section_started THEN Returned(FALSE, MissingAuthorMsg)
     ELSE IF <<"<">> \o st.author \o EmailDomain \o <<">">> # st.email
          THEN Returned(FALSE, BadEmailMsg(st.author, st.email))
     ELSE Passed

\* the list `checks` of validate_commit
checks == <<"check_header", "check_problem_task_section", "check_solution_section",
            "check_test_section", "check_jira_section", "check_author_email">>

RunCheck(check_func, commit_msg) ==
  CASE check_func = "check_header" -> check_header(commit_msg)
    [] check_func = "check_problem_task_section" -> check_problem_task_section(commit_msg)
    [] check_func = "check_solution_section" -> check_solution_section(commit_msg)
    [] check_func = "check_test_section" -> check_test_section(commit_msg)
    [] check_func = "check_jira_section" -> check_jira_section(commit_msg)
    [] check_func = "check_author_email" -> check_author_email(commit_msg)

RECURSIVE ValidateLoop(_, _, _)
\* the loop of validate_commit from check i on, error_msgs so far; an exception
\* of a check function is not caught and leaves validate_commit
ValidateLoop(commit_msg, i, error_msgs) ==
  IF i > Len(checks)
  THEN [raised |-> FALSE, is_valid |-> error_msgs = <<>>, error_msgs |-> error_msgs]
  ELSE LET r == RunCheck(checks[i], commit_msg)
       IN IF r.raised
          THEN [raised |-> TRUE, is_valid |-> FALSE, error_msgs |-> <<>>]
          ELSE ValidateLoop(commit_msg, i + 1,
                            IF r.ok THEN error_msgs ELSE Append(error_msgs, r.msg))

validate_commit(commit_msg) == ValidateLoop(commit_msg, 1, <<>>)

(***************************************************************************)
(* code_format_helper.py / typing_helper.py: file classification           *)
(***************************************************************************)
RECURSIVE RFind(_, _, _)
\* str.rfind(c) over s[1..i], 1-based; 0 when there is none
RFind(s, c, i) ==
  IF i = 0 THEN 0
  ELSE IF s[i] = c THEN i
  ELSE RFind(s, c, i - 1)

RECURSIVE FirstNonDot(_, _, _)
\* first index in i..(dot - 1) holding something else than '.', 0 when none
FirstNonDot(p, i, dot) ==
  IF i >= dot THEN 0
  ELSE IF p[i] # "." THEN i
  ELSE FirstNonDot(p, i + 1, dot)

\* os.path.splitext(path)[1] (posixpath): from the last dot of the last
\* component on, unless that component has only leading dots before it
splitext_ext(path) ==
  LET sepIndex == RFind(path, "/", Len(path))
      dotIndex == RFind(path, ".", Len(path))
  IN IF dotIndex > sepIndex /\ FirstNonDot(path, sepIndex + 1, dotIndex) # 0
     THEN Drop(path, dotIndex)
     ELSE <<>>

ClangExtensions ==
  {<<".", "c", "p", "p">>, <<".", "c">>, <<".", "c", "c">>, <<".", "h">>, <<".", "h", "p", "p">>,
   <<".", "h", "x", "x">>, <<".", "c", "x", "x">>, <<".", "i", "n", "c">>,
   <<".", "c", "p", "p", "m">>, <<".", "c", "l">>}

ExtensionlessPrefix == <<"l", "i", "b", "c", "x", "x", "/", "i", "n", "c", "l", "u", "d", "e">>

should_include_extensionless_file(path) == StartsWith(path, ExtensionlessPrefix)

PyExtension == <<".", "p", "y">>

ClangKeeps(path) ==
  LET ext == splitext_ext(path)
  IN \/ ext \in ClangExtensions
     \/ ext = <<>> /\ should_include_extensionless_file(path)

PyKeeps(path) == splitext_ext(path) = PyExtension

\* the condition under which helper `name` appends a path
Keeps(name, path) ==
  CASE name = "clang-format" -> ClangKeeps(path)
    [] name = "ruff" -> PyKeeps(path)
    [] name = "mypy" -> PyKeeps(path)

RECURSIVE FilterLoop(_, _, _, _)
\* "for path in changed_files: if <condition>: filtered_files.append(path)"
FilterLoop(name, changed_files, i, filtered_files) ==
  IF i > Len(changed_files) THEN filtered_files
  ELSE FilterLoop(name, changed_files, i + 1,
                  IF Keeps(name, changed_files[i])
                  THEN Append(filtered_files, changed_files[i])
                  ELSE filtered_files)

RECURSIVE DedupLoop(_, _, _, _)
DedupLoop(name, changed_files, i, filtered_files) ==
  IF i > Len(changed_files) THEN filtered_files
  ELSE DedupLoop(name, changed_files, i + 1,
                 IF /\ Keeps(name, changed_files[i])
                    /\ \A k \in 1..Len(filtered_files) : filtered_files[k] # changed_files[i]
                 THEN Append(filtered_files, changed_files[i])
                 ELSE filtered_files)

\* mutant of filter_changed_files: a path already kept is not kept again
filter_changed_files_Dedup(name, changed_files) == DedupLoop(name, changed_files, 1, <<>>)

\* <helper>.filter_changed_files(changed_files)
filter_changed_files(name, changed_files) == FilterLoop(name, changed_files, 1, <<>>)

(***************************************************************************)
(* check_mr_logs.py: the history queries                                   *)
(***************************************************************************)
\* Optional[str]
None == [is_none |-> TRUE, value |-> <<>>]
Some(s) == [is_none |-> FALSE, value |-> s]
\* Python truth of an Optional[str]
Truthy(o) == ~o.is_none /\ o.value # <<>>

\* what `git show -s --format=%B%nAuthor: %an <%ae>` writes for a commit with
\* raw message body, author name an and author email ae
AuthorLine(an, ae) ==
  AuthorPrefix \o <<" ">> \o an \o <<" ", "<">> \o ae \o <<">">>

GitShowStdout(body, an, ae) ==
  (IF body = <<>> THEN <<>> ELSE body \o <<NL>>) \o <<NL>> \o AuthorLine(an, ae) \o <<NL>>

\* subprocess.run(["git", "show", ...], check=True): git cannot be started
\* (FileNotFoundError), it ends with a non-zero status (CalledProcessError), or
\* it ends with status 0 and some standard output
ShowAbsent == [started |-> FALSE, error |-> FALSE, stdout |-> <<>>]
ShowError == [started |-> TRUE, error |-> TRUE, stdout |-> <<>>]
ShowOk(stdout) == [started |-> TRUE, error |-> FALSE, stdout |-> stdout]

\* get_commit_log: `except subprocess.SubprocessError` catches
\* CalledProcessError and gives None; FileNotFoundError is an OSError and
\* leaves the function
get_commit_log(show) ==
  IF ~show.started THEN [raised |-> TRUE, log |-> None]
  ELSE IF show.error THEN [raised |-> FALSE, log |-> None]
  ELSE [raised |-> FALSE, log |-> Some(Strip(show.stdout))]

\* get_git_commits on a successful `git log --pretty=format:%H`
get_git_commits(stdout) == Split(Strip(stdout), NL)

(***************************************************************************)
(* Inputs                                                                  *)
(***************************************************************************)
\* largest number of commits of a revision range
MaxCommits == 2
\* largest number of paths of a changed-file list
MaxFiles == 2

\* A commit message is put together from one choice per section; a choice is
\* the lines the section contributes (none when the section is absent).
HeaderSlot == {<<>>, <<<<"f", "[", "C", "]", ":", " ", "x">>>>, <<<<"x">>>>,
               <<<<"é", "[", "C", "]", ":", " ", "x">>>>}
ProblemSlot == {<<>>, <<<<"P", "r", "o", "b", "l", "e", "m", ":", " ", "p">>>>, <<<<"T", "a", "s", "k", ":", " ", "t">>>>}
SolutionSlot == {<<>>, <<<<"S", "o", "l", "u", "t", "i", "o", "n", ":", " ", "s">>>>}
TestSlot == {<<>>, <<<<"T", "e", "s", "t", ":", " ", "t">>>>}
JiraSlot == {<<>>, <<<<"J", "I", "R", "A", ":", " ", "A", "-", "1">>>>, <<<<"J", "I", "R", "A", ":", " ", "a", "1">>>>, <<<<"J", "I", "R", "A", ":", " ", "A", "-", "1", "x">>>>,
             <<JiraPrefix>>, <<JiraPrefix \o <<"", "A", "-", "1">>>>,
             <<<<"J", "I", "R", "A", ":", " ", "a", "1">>, <<"J", "I", "R", "A", ":", " ", "A", "-", "1">>>>}
\* an "Author:" line written by hand into the message body; in the last one a
\* no-break space separates the name from the email
BodyAuthorSlot == {<<>>, <<AuthorPrefix>>, <<AuthorPrefix \o <<" ", "j">>>>,
                   <<AuthorPrefix \o <<" ", "j", " ", "<", "j", "@", "i", "s", ".", "i", "c", ">">>>>}

Body(h, p, s, t, j, a) == Join(h \o p \o s \o t \o j \o a, <<NL>>)

Bodies ==
  {Body(h, p, s, t, j, a) : h \in HeaderSlot, p \in ProblemSlot, s \in SolutionSlot,
                            t \in TestSlot, j \in JiraSlot, a \in BodyAuthorSlot}

\* author identities (%an, %ae) of commits
AuthorNames == {<<"j">>, <<"J", " ", "D">>}
AuthorEmails == {<<"j", "@", "i", "s", ".", "i", "c">>, <<"j", "@", "w", ".", "c">>}
NoAuthor == [present |-> FALSE, an |-> <<>>, ae |-> <<>>]
Authors == {[present |-> TRUE, an |-> an, ae |-> ae] : an \in AuthorNames, ae \in AuthorEmails}

\* the commits a revision range may hold
ConformantBody == Body(<<<<"f", "[", "C", "]", ":", " ", "x">>>>, <<<<"P", "r", "o", "b", "l", "e", "m", ":", " ", "p">>>>, <<<<"S", "o", "l", "u", "t", "i", "o", "n", ":", " ", "s">>>>, <<<<"T", "e", "s", "t", ":", " ", "t">>>>, <<<<"J", "I", "R", "A", ":", " ", "A", "-", "1">>>>, <<>>)
NoTestBody == Body(<<<<"f", "[", "C", "]", ":", " ", "x">>>>, <<<<"P", "r", "o", "b", "l", "e", "m", ":", " ", "p">>>>, <<<<"S", "o", "l", "u", "t", "i", "o", "n", ":", " ", "s">>>>, <<>>, <<<<"J", "I", "R", "A", ":", " ", "A", "-", "1">>>>, <<>>)
BareAuthorBody == Body(<<<<"f", "[", "C", "]", ":", " ", "x">>>>, <<<<"P", "r", "o", "b", "l", "e", "m", ":", " ", "p">>>>, <<<<"S", "o", "l", "u", "t", "i", "o", "n", ":", " ", "s">>>>, <<<<"T", "e", "s", "t", ":", " ", "t">>>>, <<<<"J", "I", "R", "A", ":", " ", "A", "-", "1">>>>, <<<<"A", "u", "t", "h", "o", "r", ":">>>>)
CommitPool ==
  {[body |-> ConformantBody, an |-> <<"j">>, ae |-> <<"j", "@", "i", "s", ".", "i", "c">>],
   [body |-> NoTestBody, an |-> <<"j">>, ae |-> <<"j", "@", "i", "s", ".", "i", "c">>],
   [body |-> NoTestBody, an |-> <<"j">>, ae |-> <<"j", "@", "w", ".", "c">>],
   [body |-> BareAuthorBody, an |-> <<"j">>, ae |-> <<"j", "@", "i", "s", ".", "i", "c">>]}

DigitChar == <<"1", "2", "3", "4", "5", "6", "7", "8", "9">>
\* the identifier of the i-th commit of the range
Hash(i) == <<"c", DigitChar[i]>>
RangeHashes == {Hash(i) : i \in 1..MaxCommits}

PathPool ==
  {<<"a", ".", "c", "p", "p">>, <<"b", ".", "p", "y">>, <<"c", ".", "h">>, <<"d", ".", "t", "x", "t">>,
   <<"l", "i", "b", "c", "x", "x", "/", "i", "n", "c", "l", "u", "d", "e", "/", "v", "e", "c", "t", "o", "r">>,
   <<"M", "a", "k", "e", "f", "i", "l", "e">>, <<".", "p", "y">>,
   <<"t", "e", "s", "t", "/", "u", "n", "i", "t", "t", "e", "s", "t", "s", "/", "l", "i", "t", ".", "c", "f", "g", ".", "p", "y">>}
ExampleFiles == <<<<"a", ".", "c", "p", "p">>, <<"b", ".", "p", "y">>, <<"c", ".", "h">>, <<"d", ".", "t", "x", "t">>>>

RECURSIVE SeqsUpTo(_, _)
\* the sequences over S of length at most n
SeqsUpTo(S, n) ==
  IF n = 0 THEN {<<>>}
  ELSE LET shorter == SeqsUpTo(S, n - 1)
       IN shorter \cup {Append(q, x) : q \in shorter, x \in S}

FileLists == SeqsUpTo(PathPool, MaxFiles) \cup {ExampleFiles}

\* args.changed_files: absent, or the comma separated list
ChangedFilesArgs == {None} \cup {Some(Join(l, <<",">>)) : l \in FileLists}

(***************************************************************************)
(* State                                                                   *)
(***************************************************************************)
VARIABLES
  prog,               \* the entry point that runs
  pc,                 \* its position
  commit_msg,         \* validate_commit's argument
  author,             \* the identity git appended to it, or NoAuthor
  result,             \* what validate_commit did
  checked,            \* a check function called on its own, and what it did
  commit_hashes,      \* check_mr_logs: the list get_git_commits returned
  idx,                \* check_mr_logs: position of the loop in commit_hashes
  validated,          \* check_mr_logs: (commit_hash, outcome) of every validate_commit call
  error_commits,      \* check_mr_logs: the (commit_hash, error_msg) pairs
  changed_files_arg,  \* args.changed_files
  changed_files,      \* the list the helpers work on
  filtered,           \* the three filter_changed_files results
  fmt_idx,            \* format helper: position of the loop in ALL_FORMATTERS
  runs,               \* one record per helper.run(...) call
  failed_formatters,  \* format helper: names of the helpers whose run was False
  printed,            \* the lines written to stdout / stderr
  exit_code           \* the process's exit status (read when pc = "exited")

vars == <<prog, pc, commit_msg, author, result, checked, commit_hashes, idx, validated,
          error_commits, changed_files_arg, changed_files, filtered, fmt_idx, runs,
          failed_formatters, printed, exit_code>>

NoResult == [raised |-> FALSE, is_valid |-> FALSE, error_msgs |-> <<>>]
NoFiltered == [n \in {"clang-format", "ruff", "mypy"} |-> <<>>]

\* a printed line: which print statement, and the values it formats
Line(kind, commit_hash, error_msg, names) ==
  [kind |-> kind, commit_hash |-> commit_hash, error_msg |-> error_msg, names |-> names]
Say(kind) == Line(kind, <<>>, Msg(""), <<>>)
\* the traceback of an exception nothing catches; the interpreter then exits 1
Traceback(exc) == Line("Traceback", <<>>, Msg(exc), <<>>)

Idle ==
  /\ pc = "start"
  /\ result = NoResult
  /\ checked = [check_func |-> "", r |-> Passed]
  /\ commit_hashes = <<>>
  /\ idx = 1
  /\ validated = <<>>
  /\ error_commits = <<>>
  /\ changed_files = <<>>
  /\ filtered = NoFiltered
  /\ fmt_idx = 1
  /\ runs = <<>>
  /\ failed_formatters = <<>>
  /\ printed = <<>>
  /\ exit_code = 0

InitValidate ==
  /\ prog = "validate_commit"
  /\ author \in {NoAuthor} \cup Authors
  /\ \E body \in Bodies :
       commit_msg = IF author.present
                    THEN get_commit_log(ShowOk(GitShowStdout(body, author.an, author.ae))).log.value
                    ELSE body
  /\ changed_files_arg = None
  /\ Idle

InitLogs ==
  /\ prog = "check_mr_logs"
  /\ author = NoAuthor
  /\ commit_msg = <<>>
  /\ changed_files_arg = None
  /\ Idle

InitFiles ==
  /\ prog \in {"filter_changed_files", "code_format_helper", "typing_helper"}
  /\ author = NoAuthor
  /\ commit_msg = <<>>
  /\ changed_files_arg \in ChangedFilesArgs
  /\ Idle

Init == InitValidate \/ InitLogs \/ InitFiles

(***************************************************************************)
(* validate_commit, called on a message                                    *)
(***************************************************************************)
ValidateCommit ==
  /\ prog = "validate_commit" /\ pc = "start"
  /\ result' = validate_commit(commit_msg)
  /\ pc' = "done"
  /\ UNCHANGED <<checked, prog, commit_msg, author, commit_hashes, idx, validated, error_commits,
                 changed_files_arg, changed_files, filtered, fmt_idx, runs,
                 failed_formatters, printed, exit_code>>

\* one of the six check functions, called on the message
CallCheck ==
  /\ prog = "validate_commit" /\ pc = "start"
  /\ \E i \in 1..Len(checks) :
       checked' = [check_func |-> checks[i], r |-> RunCheck(checks[i], commit_msg)]
  /\ pc' = "checked"
  /\ UNCHANGED <<prog, commit_msg, author, result, commit_hashes, idx, validated,
                 error_commits, changed_files_arg, changed_files, filtered, fmt_idx, runs,
                 failed_formatters, printed, exit_code>>

(***************************************************************************)
(* check_mr_logs.py __main__                                               *)
(***************************************************************************)
\* get_git_commits: the `git log` query fails (CalledProcessError, a
\* SubprocessError): it is reported and the process exits 2
GitLogFails ==
  /\ prog = "check_mr_logs" /\ pc = "start"
  /\ printed' = Append(printed, Say("Error getting commit history"))
  /\ exit_code' = 2
  /\ pc' = "exited"
  /\ UNCHANGED <<checked, prog, commit_msg, author, result, commit_hashes, idx, validated,
                 error_commits, changed_files_arg, changed_files, filtered, fmt_idx,
                 runs, failed_formatters>>

\* get_git_commits: git cannot be started; subprocess.run raises
\* FileNotFoundError, an OSError that `except subprocess.SubprocessError` lets through
GitMissing ==
  /\ prog = "check_mr_logs" /\ pc = "start"
  /\ printed' = Append(printed, Traceback("FileNotFoundError"))
  /\ exit_code' = 1
  /\ pc' = "exited"
  /\ UNCHANGED <<checked, prog, commit_msg, author, result, commit_hashes, idx, validated,
                 error_commits, changed_files_arg, changed_files, filtered, fmt_idx,
                 runs, failed_formatters>>

\* get_git_commits: the query lists the n commits of the range
GetGitCommits ==
  /\ prog = "check_mr_logs" /\ pc = "start"
  /\ \E n \in 0..MaxCommits :
       commit_hashes' = get_git_commits(Join([i \in 1..n |-> Hash(i)], <<NL>>))
  /\ pc' = "loop"
  /\ UNCHANGED <<checked, prog, commit_msg, author, result, idx, validated, error_commits,
                 changed_files_arg, changed_files, filtered, fmt_idx, runs,
                 failed_formatters, printed, exit_code>>

\* what `git show` may do for an argument: not start, fail, or write a
\* commit's text when the argument names a commit
ShowOutcomes(commit_hash) ==
  {ShowAbsent, ShowError} \cup
  (IF commit_hash \in RangeHashes
   THEN {ShowOk(GitShowStdout(c.body, c.an, c.ae)) : c \in CommitPool}
   ELSE {})

\* one iteration of the loop of check_mr_logs; an exception of get_commit_log
\* or of validate_commit is caught nowhere and ends the process with a traceback
CheckOneCommit ==
  /\ prog = "check_mr_logs" /\ pc = "loop" /\ idx <= Len(commit_hashes)
  /\ LET commit_hash == commit_hashes[idx] IN
     \E show \in ShowOutcomes(commit_hash) :
       LET got == get_commit_log(show)
           msg == got.log
           r == validate_commit(msg.value)
           log == IF show.error
                  THEN Append(printed, Line("Error getting log for commit", commit_hash, Msg(""), <<>>))
                  ELSE printed
       IN IF got.raised
          THEN /\ printed' = Append(printed, Traceback("FileNotFoundError"))
               /\ exit_code' = 1
               /\ pc' = "exited"
               /\ UNCHANGED <<commit_msg, result, validated, error_commits, idx>>
          ELSE IF ~Truthy(msg)
          THEN /\ printed' = Append(log, Line("Could not get log for commit", commit_hash, Msg(""), <<>>))
               /\ exit_code' = 1
               /\ pc' = "exited"
               /\ UNCHANGED <<commit_msg, result, validated, error_commits, idx>>
          ELSE /\ commit_msg' = msg.value
               /\ result' = r
               /\ validated' = Append(validated, [commit_hash |-> commit_hash, result |-> r])
               /\ IF r.raised
                  THEN /\ printed' = Append(log, Traceback("IndexError"))
                       /\ exit_code' = 1
                       /\ pc' = "exited"
                       /\ UNCHANGED <<error_commits, idx>>
                  ELSE /\ error_commits' =
                            error_commits \o
                            [k \in 1..Len(r.error_msgs) |->
                               [commit_hash |-> commit_hash, error_msg |-> r.error_msgs[k]]]
                       /\ idx' = idx + 1
                       /\ UNCHANGED <<printed, exit_code, pc>>
  /\ UNCHANGED <<checked, prog, author, commit_hashes, changed_files_arg, changed_files, filtered,
                 fmt_idx, runs, failed_formatters>>

\* the end of check_mr_logs and of __main__
ReportCommits ==
  /\ prog = "check_mr_logs" /\ pc = "loop" /\ idx > Len(commit_hashes)
  /\ IF error_commits # <<>>
     THEN /\ printed' = printed \o <<Say("Found commits that don't match the template")>> \o
                        [k \in 1..Len(error_commits) |->
                           Line("- Commit", error_commits[k].commit_hash,
                                error_commits[k].error_msg, <<>>)]
          /\ exit_code' = 1
     ELSE /\ printed' = Append(printed, Say("All commits match the template!"))
          /\ exit_code' = 0
  /\ pc' = "exited"
  /\ UNCHANGED <<checked, prog, commit_msg, author, result, commit_hashes, idx, validated,
                 error_commits, changed_files_arg, changed_files, filtered, fmt_idx,
                 runs, failed_formatters>>

NextLogs == GitLogFails \/ GitMissing \/ GetGitCommits \/ CheckOneCommit \/ ReportCommits

(***************************************************************************)
(* The external tools                                                      *)
(***************************************************************************)
\* subprocess.run(cmd, stdout=PIPE, stderr=PIPE): the executable cannot be
\* started (FileNotFoundError is raised), or it ends with a return code, some
\* standard output and some standard error
ProcAbsent == [started |-> FALSE, returncode |-> 0, stdout |-> <<>>, stderr |-> <<>>]
Proc(returncode, stdout, stderr) ==
  [started |-> TRUE, returncode |-> returncode, stdout |-> stdout, stderr |-> stderr]
ProcOutcomes ==
  {ProcAbsent} \cup
  {Proc(rc, out, err) : rc \in {0, 1}, out \in {<<>>, <<"d">>}, err \in {<<>>, <<"e", NL>>}}
\* the outcomes to consider for a helper given these files: no process is
\* started for a helper that keeps none of them
ProcChoices(name, files_in) ==
  IF filter_changed_files(name, files_in) = <<>> THEN {ProcAbsent} ELSE ProcOutcomes

RECURSIVE StripDots(_)
\* ext.strip(".")
StripDots(ext) ==
  IF ext # <<>> /\ ext[1] = "." THEN StripDots(Tail(ext))
  ELSE IF ext # <<>> /\ ext[Len(ext)] = "." THEN StripDots(SubSeq(ext, 1, Len(ext) - 1))
  ELSE ext

\* the command a helper builds for its files: the tool, for clang-format the
\* set of extensions given with --extensions, and the file list after "--"
Command(name, files) ==
  [tool |-> name,
   extensions |-> IF name = "clang-format"
                  THEN {StripDots(splitext_ext(files[i])) : i \in 1..Len(files)}
                  ELSE {},
   files |-> files]

(***************************************************************************)
(* code_format_helper.py                                                   *)
(***************************************************************************)
ALL_FORMATTERS == <<"ruff", "clang-format">>

IssuesWarning ==
  "Warning: {friendly_name}, {name} detected some issues with your code formatting..."
NoDiffWarning ==
  "Warning: The {friendly_name} failed without printing a diff. Check the logs for stderr output. :warning:"

\* mutant of format_run: the tool is started even when no file is left
format_run_NoSkip(name, files_in, proc) ==
  LET running == Line("Running:", <<>>, Msg(""), <<name>>)
      stderr == Line("stderr", proc.stderr, Msg(""), <<name>>)
  IN IF ~proc.started
     THEN [raised |-> TRUE, invoked |-> TRUE, diff |-> None, lines |-> <<running>>]
     ELSE IF proc.returncode # 0
     THEN [raised |-> FALSE, invoked |-> TRUE, diff |-> Some(proc.stdout),
           lines |-> <<running, stderr>>]
     ELSE [raised |-> FALSE, invoked |-> TRUE, diff |-> None, lines |-> <<running, stderr>>]

\* RuffFormatHelper.format_run / ClangFormatHelper.format_run: None when there
\* is nothing to check or the tool returned 0, else the tool's standard output;
\* `lines` are what it writes (args.verbose is True): the command, the tool's
\* standard error, and the tool's standard output (clang-format: on a non-zero
\* return code only).  subprocess.run raises FileNotFoundError when the tool
\* cannot be started.
format_run(name, files_in, proc) ==
  LET files == filter_changed_files(name, files_in)
      running == Line("Running:", <<>>, Msg(""), <<name>>)
      stderr == Line("stderr", proc.stderr, Msg(""), <<name>>)
  IN IF files = <<>>
     THEN [raised |-> FALSE, invoked |-> FALSE, diff |-> None, lines |-> <<>>]
     ELSE IF ~proc.started
     THEN [raised |-> TRUE, invoked |-> TRUE, diff |-> None, lines |-> <<running>>]
     ELSE IF proc.returncode # 0
     THEN [raised |-> FALSE, invoked |-> TRUE, diff |-> Some(proc.stdout),
           lines |-> <<running, stderr,
                       Line("error: {name} exited with code", <<>>, Msg(""), <<name>>),
                       Line("stdout", proc.stdout, Msg(""), <<name>>)>>]
     ELSE [raised |-> FALSE, invoked |-> TRUE, diff |-> None,
           lines |-> IF name = "ruff"
                     THEN <<running, stderr, Line("stdout", proc.stdout, Msg(""), <<name>>)>>
                     ELSE <<running, stderr>>]

\* mutant of FormatHelper_run: an empty diff is taken for no diff ("if not diff")
FormatHelper_run_EmptyDiffClean(name, files_in, proc) ==
  LET fr == format_run(name, files_in, proc)
      base == [name |-> name, cmd |-> Command(name, filter_changed_files(name, files_in)),
               invoked |-> fr.invoked, proc |-> proc, raised |-> fr.raised]
  IN IF fr.raised
     THEN [run |-> base @@ [ok |-> FALSE, warning |-> ""], lines |-> fr.lines]
     ELSE IF fr.diff.is_none \/ fr.diff.value = <<>>
     THEN [run |-> base @@ [ok |-> TRUE, warning |-> ""], lines |-> fr.lines]
     ELSE IF Len(fr.diff.value) > 0
     THEN [run |-> base @@ [ok |-> FALSE, warning |-> IssuesWarning],
           lines |-> Append(fr.lines, Line(IssuesWarning, <<>>, Msg(""), <<name>>))]
     ELSE [run |-> base @@ [ok |-> FALSE, warning |-> NoDiffWarning],
           lines |-> Append(fr.lines, Line(NoDiffWarning, <<>>, Msg(""), <<name>>))]

\* FormatHelper.run
FormatHelper_run(name, files_in, proc) ==
  LET fr == format_run(name, files_in, proc)
      base == [name |-> name, cmd |-> Command(name, filter_changed_files(name, files_in)),
               invoked |-> fr.invoked, proc |-> proc, raised |-> fr.raised]
  IN IF fr.raised
     THEN [run |-> base @@ [ok |-> FALSE, warning |-> ""], lines |-> fr.lines]
     ELSE IF fr.diff.is_none
     THEN [run |-> base @@ [ok |-> TRUE, warning |-> ""], lines |-> fr.lines]
     ELSE IF Len(fr.diff.value) > 0
     THEN [run |-> base @@ [ok |-> FALSE, warning |-> IssuesWarning],
           lines |-> Append(fr.lines, Line(IssuesWarning, <<>>, Msg(""), <<name>>))]
     ELSE [run |-> base @@ [ok |-> FALSE, warning |-> NoDiffWarning],
           lines |-> Append(fr.lines, Line(NoDiffWarning, <<>>, Msg(""), <<name>>))]

\* "changed_files = []; if args.changed_files: changed_files = ....split(',')"
ParseChangedFiles(arg) == IF Truthy(arg) THEN Split(arg.value, ",") ELSE <<>>

FormatMain ==
  /\ prog = "code_format_helper" /\ pc = "start"
  /\ changed_files' = ParseChangedFiles(changed_files_arg)
  /\ pc' = "dispatch"
  /\ UNCHANGED <<checked, prog, commit_msg, author, result, commit_hashes, idx, validated,
                 error_commits, changed_files_arg, filtered, fmt_idx, runs,
                 failed_formatters, printed, exit_code>>

\* one iteration of "for fmt in ALL_FORMATTERS"; an exception of fmt.run is
\* caught nowhere and ends the process with a traceback
RunFormatter ==
  /\ prog = "code_format_helper" /\ pc = "dispatch" /\ fmt_idx <= Len(ALL_FORMATTERS)
  /\ \E proc \in ProcChoices(ALL_FORMATTERS[fmt_idx], changed_files) :
       LET fmt == ALL_FORMATTERS[fmt_idx]
           r == FormatHelper_run(fmt, changed_files, proc)
       IN /\ runs' = Append(runs, r.run)
          /\ IF r.run.raised
             THEN /\ printed' = Append(printed \o r.lines, Traceback("FileNotFoundError"))
                  /\ exit_code' = 1
                  /\ pc' = "exited"
                  /\ UNCHANGED <<failed_formatters, fmt_idx>>
             ELSE /\ printed' = printed \o r.lines
                  /\ failed_formatters' = IF r.run.ok THEN failed_formatters
                                          ELSE Append(failed_formatters, fmt)
                  /\ fmt_idx' = fmt_idx + 1
                  /\ UNCHANGED <<exit_code, pc>>
  /\ UNCHANGED <<checked, prog, commit_msg, author, result, commit_hashes, idx, validated,
                 error_commits, changed_files_arg, changed_files, filtered>>

FormatExit ==
  /\ prog = "code_format_helper" /\ pc = "dispatch" /\ fmt_idx > Len(ALL_FORMATTERS)
  /\ IF Len(failed_formatters) > 0
     THEN /\ printed' = Append(printed, Line("error: some formatters failed:", <<>>, Msg(""),
                                             failed_formatters))
          /\ exit_code' = 1
     ELSE /\ exit_code' = 0
          /\ UNCHANGED printed
  /\ pc' = "exited"
  /\ UNCHANGED <<checked, prog, commit_msg, author, result, commit_hashes, idx, validated,
                 error_commits, changed_files_arg, changed_files, filtered, fmt_idx, runs,
                 failed_formatters>>

NextFormat == FormatMain \/ RunFormatter \/ FormatExit

(***************************************************************************)
(* typing_helper.py                                                        *)
(***************************************************************************)
ExcludedFile == <<"t", "e", "s", "t", "/", "u", "n", "i", "t", "t", "e", "s", "t", "s", "/", "l", "i", "t", ".", "c", "f", "g", ".", "p", "y">>

TypingWarning ==
  "Warning: {friendly_name}, {name} detected some issues with your code typing..."

\* MypyHelper.has_tool: the probe `mypy --version` starts and returns 0
has_tool(probe) == probe.started /\ probe.returncode = 0

\* MypyHelper.typing_run: `lines` are what it writes (args.verbose is True);
\* subprocess.run raises FileNotFoundError when the tool cannot be started
typing_run(files_in, proc) ==
  LET py_files == filter_changed_files("mypy", files_in)
      running == Line("Running:", <<>>, Msg(""), <<"mypy">>)
      stderr == Line("stderr", proc.stderr, Msg(""), <<"mypy">>)
  IN IF py_files = <<>>
     THEN [raised |-> FALSE, ok |-> TRUE, invoked |-> FALSE,
           lines |-> <<Say("No python files changed, skipping static typing...")>>]
     ELSE IF ~proc.started
     THEN [raised |-> TRUE, ok |-> FALSE, invoked |-> TRUE, lines |-> <<running>>]
     ELSE IF proc.returncode # 0
     THEN [raised |-> FALSE, ok |-> FALSE, invoked |-> TRUE,
           lines |-> <<running, stderr,
                       Line("error: {name} exited with code", <<>>, Msg(""), <<"mypy">>),
                       Line("stdout", proc.stdout, Msg(""), <<"mypy">>)>>]
     ELSE [raised |-> FALSE, ok |-> TRUE, invoked |-> TRUE,
           lines |-> <<running, stderr, Line("stdout", proc.stdout, Msg(""), <<"mypy">>)>>]

\* TypingHelper.run; an exception of typing_run passes through it
TypingHelper_run(files_in, proc) ==
  LET tr == typing_run(files_in, proc)
      base == [name |-> "mypy", cmd |-> Command("mypy", filter_changed_files("mypy", files_in)),
               invoked |-> tr.invoked, proc |-> proc, raised |-> tr.raised]
  IN IF tr.raised
     THEN [run |-> base @@ [ok |-> FALSE, warning |-> ""], lines |-> tr.lines]
     ELSE IF tr.ok
     THEN [run |-> base @@ [ok |-> TRUE, warning |-> ""], lines |-> tr.lines]
     ELSE [run |-> base @@ [ok |-> FALSE, warning |-> TypingWarning],
           lines |-> Append(tr.lines, Line(TypingWarning, <<>>, Msg(""), <<"mypy">>))]

TypingMain ==
  /\ prog = "typing_helper" /\ pc = "start"
  /\ changed_files' = SelectSeq(ParseChangedFiles(changed_files_arg),
                                LAMBDA f : f # ExcludedFile)
  /\ pc' = "probe"
  /\ UNCHANGED <<checked, prog, commit_msg, author, result, commit_hashes, idx, validated,
                 error_commits, changed_files_arg, filtered, fmt_idx, runs,
                 failed_formatters, printed, exit_code>>

\* "if not helper.has_tool(): print(...); sys.exit(1)"
ProbeTool ==
  /\ prog = "typing_helper" /\ pc = "probe"
  /\ \E probe \in {ProcAbsent, Proc(0, <<>>, <<>>), Proc(1, <<>>, <<>>)} :
       IF has_tool(probe)
       THEN /\ pc' = "run"
            /\ UNCHANGED <<printed, exit_code>>
       ELSE /\ printed' = Append(printed, Line("error: {name} is not installed or not found in PATH",
                                               <<>>, Msg(""), <<"mypy">>))
            /\ exit_code' = 1
            /\ pc' = "exited"
  /\ UNCHANGED <<checked, prog, commit_msg, author, result, commit_hashes, idx, validated,
                 error_commits, changed_files_arg, changed_files, filtered, fmt_idx, runs,
                 failed_formatters>>

\* "if not helper.run(changed_files, args): print(...); sys.exit(1)"; the
\* tool the probe found may be gone when it is run, and the exception of
\* helper.run is caught nowhere and ends the process with a traceback
RunTyping ==
  /\ prog = "typing_helper" /\ pc = "run"
  /\ \E proc \in ProcChoices("mypy", changed_files) :
       LET r == TypingHelper_run(changed_files, proc)
       IN /\ runs' = Append(runs, r.run)
          /\ IF r.run.raised
             THEN /\ printed' = Append(printed \o r.lines, Traceback("FileNotFoundError"))
                  /\ exit_code' = 1
             ELSE IF r.run.ok
             THEN /\ printed' = printed \o r.lines
                  /\ exit_code' = 0
             ELSE /\ printed' = Append(printed \o r.lines,
                                       Say("error: static typing for python failed"))
                  /\ exit_code' = 1
  /\ pc' = "exited"
  /\ UNCHANGED <<checked, prog, commit_msg, author, result, commit_hashes, idx, validated,
                 error_commits, changed_files_arg, changed_files, filtered, fmt_idx,
                 failed_formatters>>

NextTyping == TypingMain \/ ProbeTool \/ RunTyping

(***************************************************************************)
(* filter_changed_files of the three helpers, called on a list              *)
(***************************************************************************)
FilterFiles ==
  /\ prog = "filter_changed_files" /\ pc = "start"
  /\ changed_files' = ParseChangedFiles(changed_files_arg)
  /\ filtered' = [n \in DOMAIN filtered |-> filter_changed_files(n, changed_files')]
  /\ pc' = "done"
  /\ UNCHANGED <<checked, prog, commit_msg, author, result, commit_hashes, idx, validated,
                 error_commits, changed_files_arg, fmt_idx, runs, failed_formatters,
                 printed, exit_code>>

Next == ValidateCommit \/ CallCheck \/ NextLogs \/ NextFormat \/ NextTyping \/ FilterFiles

Spec == Init /\ [][Next]_vars

(***************************************************************************)
(* Properties                                                              *)
(***************************************************************************)
ValidateDone == prog = "validate_commit" /\ pc = "done"
Checked(check_func) ==
  prog = "validate_commit" /\ pc = "checked" /\ checked.check_func = check_func
Exited(p) == prog = p /\ pc = "exited"

\* the elements of a sequence
Range(q) == {q[i] : i \in 1..Len(q)}

\* the lines of a message, and whether one of them starts with one of the prefixes
LinesOf(msg) == Split(msg, NL)
HasLine(msg, prefixes) ==
  \E line \in Range(LinesOf(msg)) : \E p \in prefixes : StartsWith(line, p)

\* the outcome of each of the six checks on its own, in the order of the list
SixOutcomes(msg) == [i \in 1..Len(checks) |-> RunCheck(checks[i], msg)]
RECURSIVE FailuresFrom(_, _)
FailuresFrom(outcomes, i) ==
  IF i > Len(outcomes) THEN <<>>
  ELSE (IF outcomes[i].ok THEN <<>> ELSE <<outcomes[i].msg>>) \o FailuresFrom(outcomes, i + 1)

\* C1: validate_commit returns for every message; its failure list is the
\* messages of exactly the failing checks, in the order of the six checks, and
\* is_valid is true exactly when that list is empty.
C1_AllChecksAccumulate ==
  ValidateDone =>
    /\ ~result.raised
    /\ result.error_msgs = FailuresFrom(SixOutcomes(commit_msg), 1)
    /\ result.is_valid <=> (result.error_msgs = <<>>)

\* C1, for the messages on which no check raises: there the claim holds
C1_HoldsWhenNoCheckRaises ==
  (ValidateDone /\ \A o \in Range(SixOutcomes(commit_msg)) : ~o.raised) =>
    /\ ~result.raised
    /\ result.error_msgs = FailuresFrom(SixOutcomes(commit_msg), 1)
    /\ result.is_valid <=> (result.error_msgs = <<>>)

\* the five sections: the prefixes that start one, and the message for a missing one
Sections ==
  {[prefixes |-> {ProblemPrefix, TaskPrefix}, missing |-> MissingProblemMsg],
   [prefixes |-> {SolutionPrefix}, missing |-> MissingSolutionMsg],
   [prefixes |-> {TestPrefix}, missing |-> MissingTestMsg],
   [prefixes |-> {JiraPrefix}, missing |-> MissingJiraMsg],
   [prefixes |-> {AuthorPrefix}, missing |-> MissingAuthorMsg]}

TextsOf(error_msgs) == {m.text : m \in Range(error_msgs)}

\* C2: validate_commit's failure list holds the missing-section message of
\* every section no line starts, and of no section some line starts.
C2_MissingSectionsNamed ==
  ValidateDone =>
    \A S \in Sections :
      IF HasLine(commit_msg, S.prefixes)
      THEN S.missing.text \notin TextsOf(result.error_msgs)
      ELSE ~result.raised /\ S.missing.text \in TextsOf(result.error_msgs)

\* the whole of s is <uppercase-alnum>-<digits>
IsJiraReference(s) ==
  LET a == RunLen(s, UpperAlnum, 1)
      b == RunLen(s, Digits, a + 2)
  IN a >= 1 /\ Len(s) >= a + 2 /\ s[a + 1] = "-" /\ b >= 1 /\ Len(s) = a + 1 + b

\* the JIRA lines of a message, and the text after the colon of one
JiraLines(msg) == {line \in Range(LinesOf(msg)) : StartsWith(line, JiraPrefix)}
AfterColon(line) == Strip(Drop(line, Len(JiraPrefix) + 1))

\* C3: check_jira_section passes exactly when a line starts with JIRA: and its
\* text after the colon is <uppercase-alnum>-<digits>; without such a line it
\* fails with the missing-section message, and with JIRA lines of another
\* shape it fails with the malformed-reference message.
C3_JiraReference ==
  Checked("check_jira_section") =>
    LET good == \E line \in JiraLines(commit_msg) : IsJiraReference(AfterColon(line))
    IN /\ checked.r.ok <=> good
       /\ JiraLines(commit_msg) = {} => checked.r.msg = MissingJiraMsg
       /\ (JiraLines(commit_msg) # {} /\ ~good) => checked.r.msg = BadJiraMsg

RECURSIVE Contains(_, _)
\* sub in s
Contains(s, sub) ==
  IF Len(s) < Len(sub) THEN FALSE
  ELSE StartsWith(s, sub) \/ Contains(Tail(s), sub)

\* the text of a failure of check_author_email, as the f-string prints it
EmailFailureText(m) ==
  IF Len(m.args) = 2 THEN m.args[1] \o <<" ">> \o m.args[2] ELSE <<>>

\* the message holds the line "Author: <an> <ae>" git appended and no other
\* Author line
OnlyAppendedAuthorLine ==
  /\ author.present
  /\ {line \in Range(LinesOf(commit_msg)) : StartsWith(line, AuthorPrefix)}
       = {AuthorLine(author.an, author.ae)}

\* C4: on a message with the line "Author: <name> <email>", check_author_email
\* passes exactly when the email is <name@is.ic>, and otherwise fails with a
\* message that holds the name and the email, for every author name.
C4_AuthorEmail ==
  (Checked("check_author_email") /\ OnlyAppendedAuthorLine) =>
    /\ ~checked.r.raised
    /\ checked.r.ok <=> (author.ae = author.an \o EmailDomain)
    /\ ~checked.r.ok =>
         /\ Contains(EmailFailureText(checked.r.msg), author.an)
         /\ Contains(EmailFailureText(checked.r.msg), <<"<">> \o author.ae \o <<">">>)

\* the commits the history query listed, and what became of them
HistoryQueryFailed ==
  /\ commit_hashes = <<>>
  /\ \E l \in Range(printed) :
       \/ l.kind = "Error getting commit history"
       \/ l = Traceback("FileNotFoundError")
MessageMissing ==
  \E l \in Range(printed) :
    l.kind = "Could not get log for commit" /\ l.commit_hash \in RangeHashes
SomeCommitInvalid == \E v \in Range(validated) : ~v.result.is_valid

\* C5: check_mr_logs.py exits 2 exactly when the history query could not
\* run, 0 exactly when it ran and every commit of the range was fetched and
\* is valid (so for a range without commits), and 1 exactly when it ran and
\* a commit is invalid or its message is missing.
C5_ExitStatus ==
  Exited("check_mr_logs") =>
    /\ exit_code = 2 <=> HistoryQueryFailed
    /\ exit_code = 0 <=> (~HistoryQueryFailed /\ ~MessageMissing /\ ~SomeCommitInvalid)
    /\ exit_code = 1 <=> (~HistoryQueryFailed /\ (MessageMissing \/ SomeCommitInvalid))

\* what each helper must keep of the paths of PathPool, by their extensions
KeptPaths(name) ==
  IF name = "clang-format"
  THEN {<<"a", ".", "c", "p", "p">>, <<"c", ".", "h">>,
        ExtensionlessPrefix \o <<"/", "v", "e", "c", "t", "o", "r">>}
  ELSE {<<"b", ".", "p", "y">>, ExcludedFile}

\* C6: each filter_changed_files returns the paths of its input whose
\* extension it allows (for clang-format also the extensionless paths under the
\* prefix), in input order and with their duplicates; filtering its result again
\* changes nothing; the example list gives <<a.cpp, c.h>> and <<b.py>>.
C6_FilterSubsequence ==
  (prog = "filter_changed_files" /\ pc = "done") =>
    \A name \in DOMAIN filtered :
      /\ filtered[name] = SelectSeq(changed_files, LAMBDA path : path \in KeptPaths(name))
      /\ filter_changed_files(name, filtered[name]) = filtered[name]
      /\ changed_files = ExampleFiles =>
           filtered[name] = IF name = "clang-format"
                            THEN <<ExampleFiles[1], ExampleFiles[3]>>
                            ELSE <<ExampleFiles[2]>>

\* C6 witness: the example list was filtered, and so was a list with a duplicate
C6_Witness ==
  /\ prog = "filter_changed_files" /\ pc = "done"
  /\ changed_files = ExampleFiles
  /\ filtered["clang-format"] = <<ExampleFiles[1], ExampleFiles[3]>>
  /\ filtered["ruff"] = <<ExampleFiles[2]>>

\* the changed-file list given on the command line is empty
NoChangedFiles == ParseChangedFiles(changed_files_arg) = <<>>
\* the reports of the helpers that ran: all Clean, none started its tool
AllSkippedClean(names) ==
  /\ [i \in 1..Len(runs) |-> runs[i].name] = names
  /\ \A r \in Range(runs) : r.ok /\ ~r.invoked /\ r.warning = ""
ToolReportedMissing ==
  \E l \in Range(printed) : l.kind = "error: {name} is not installed or not found in PATH"

\* C7: with an empty changed-file list every tool is skipped without being
\* started, reports Clean, and the script exits 0, in the format helper and in
\* the typing helper, whatever the environment.
C7_EmptyListExitsZero ==
  (NoChangedFiles /\ pc = "exited") =>
    /\ prog = "code_format_helper" => AllSkippedClean(ALL_FORMATTERS) /\ exit_code = 0
    /\ prog = "typing_helper" => AllSkippedClean(<<"mypy">>) /\ exit_code = 0

\* C7 as amended: the format helper does so whatever the environment; the
\* typing helper does so when its availability probe succeeds, and when the
\* probe fails it reports the tool missing and exits 1 without running mypy.
C7_EmptyListAmended ==
  (NoChangedFiles /\ pc = "exited") =>
    /\ prog = "code_format_helper" => AllSkippedClean(ALL_FORMATTERS) /\ exit_code = 0
    /\ prog = "typing_helper" =>
         IF ToolReportedMissing
         THEN runs = <<>> /\ exit_code = 1
         ELSE AllSkippedClean(<<"mypy">>) /\ exit_code = 0

C7_Witness ==
  /\ NoChangedFiles /\ pc = "exited" /\ prog = "typing_helper"
  /\ ~ToolReportedMissing /\ Len(runs) = 1 /\ exit_code = 0

\* the warning lines printed for a helper
WarningsOf(name) ==
  {l.kind : l \in {l \in Range(printed) : l.names = <<name>>}}
    \cap {IssuesWarning, NoDiffWarning}

\* C8: a formatter whose tool ran is Clean when the tool returned 0, whatever
\* it wrote; NeedsChanges when it returned non-zero and wrote something;
\* InfrastructureFailure when it returned non-zero and wrote nothing; the two
\* failures make run return False and print two different warnings.
C8_OutcomeClassification ==
  prog = "code_format_helper" =>
    \A r \in Range(runs) :
      (r.invoked /\ r.proc.started) =>
        /\ r.proc.returncode = 0 => r.ok /\ WarningsOf(r.name) = {}
        /\ (r.proc.returncode # 0 /\ r.proc.stdout # <<>>) =>
             ~r.ok /\ WarningsOf(r.name) = {IssuesWarning}
        /\ (r.proc.returncode # 0 /\ r.proc.stdout = <<>>) =>
             ~r.ok /\ WarningsOf(r.name) = {NoDiffWarning}
        /\ IssuesWarning # NoDiffWarning

\* C8 witness: one formatter failed without a diff and the other with one
C8_Witness ==
  /\ prog = "code_format_helper" /\ Len(runs) = 2
  /\ runs[1].invoked /\ runs[1].proc = Proc(1, <<>>, <<>>) /\ ~runs[1].ok
  /\ runs[2].invoked /\ runs[2].proc = Proc(1, <<"d">>, <<>>) /\ ~runs[2].ok

\* the helpers whose outcome is not Clean
NotClean == SelectSeq(ALL_FORMATTERS, LAMBDA name : \E r \in Range(runs) : r.name = name /\ ~r.ok)

\* C9: the format helper dispatches every tool of ALL_FORMATTERS in order
\* whatever the earlier tools did, a tool that is absent included; it exits 0
\* exactly when every outcome is Clean and otherwise exits 1 after printing
\* the names of exactly the failing tools.
C9_AllToolsDispatched ==
  Exited("code_format_helper") =>
    /\ [i \in 1..Len(runs) |-> runs[i].name] = ALL_FORMATTERS
    /\ exit_code = 0 <=> NotClean = <<>>
    /\ NotClean # <<>> =>
         /\ exit_code = 1
         /\ Line("error: some formatters failed:", <<>>, Msg(""), NotClean) \in Range(printed)

\* C10: when check_mr_logs ends, every (commit, failure) pair validate_commit
\* produced for a commit of the range has been printed.
C10_EveryFailurePrinted ==
  Exited("check_mr_logs") =>
    \A v \in Range(validated) : \A m \in Range(v.result.error_msgs) :
      Line("- Commit", v.commit_hash, m, <<>>) \in Range(printed)

\* C11: each of the six check functions returns a (flag, message) pair on
\* every message and raises nothing, a JIRA: or Author: line with nothing or
\* with too few fields after the prefix included, so validate_commit returns.
C11_ChecksNeverRaise ==
  /\ (prog = "validate_commit" /\ pc = "checked") => ~checked.r.raised
  /\ ValidateDone => ~result.raised

\* the five checks other than check_author_email do return on every message,
\* a bare "JIRA:" line included
C11_OtherChecksReturn ==
  (prog = "validate_commit" /\ pc = "checked" /\ checked.check_func # "check_author_email")
    => ~checked.r.raised

====
